---- MODULE Spec2Model ----
(***************************************************************************)
(* A model of the Probabilistic Multiplicity Counting sketch of pmc.go.    *)
(*                                                                         *)
(* Representation of the Go values:                                        *)
(*  - a uint is the sequence of its four 16-bit limbs, least significant   *)
(*    first, so that arithmetic wraps exactly as the machine integer does; *)
(*  - the float64 fields l, m, w of a Sketch hold float64(uint); they are  *)
(*    kept as the uint they were converted from (the conversion is exact   *)
(*    for every value below 2^53 and for every value with at most 53       *)
(*    significant bits, which covers every value drawn here);              *)
(*  - the float64 fill ratio ones/l is kept as the fraction [num, den];    *)
(*  - a *bitset.BitSet is [length, set]: its length and the set of the     *)
(*    indices whose bit is 1;                                              *)
(*  - a flow key ([]byte) is one of the numbers 1..NumFlows;               *)
(*  - the value of an estimate is kept as the branch that computed it, its *)
(*    inputs k, z, n, p, and whether it is zero.                           *)
(***************************************************************************)
EXTENDS Integers, Sequences, FiniteSets

VARIABLES sketch, err, farm, call, ret, stale, calls

vars == <<sketch, err, farm, call, ret, stale, calls>>

(***************************************************************************)
(* Bounds of the model.                                                    *)
(***************************************************************************)
MaxL == 2
MaxW == 2
NumFlows == 2
BigM == 7
MaxRnd == 2
MaxSeed == 7
MaxCalls == 2
MaxArgK == 3

(* Width of the Go uint (64-bit platforms). *)
UintBits == 64

(***************************************************************************)
(* Machine integers.                                                       *)
(***************************************************************************)
(* A uint is kept as its limbs of LimbBits bits, least significant first. *)
LimbBits == UintBits \div 4

Limb == 2 ^ LimbBits

NumLimbs == UintBits \div LimbBits

(* The uint k * 2^s mod 2^UintBits, for 0 <= k < 2^15. *)
Uint(k, s) ==
  LET q == s \div LimbBits
      v == k * (2 ^ (s % LimbBits))
  IN  [i \in 1..NumLimbs |->
         IF i = q + 1 THEN v % Limb
         ELSE IF i = q + 2 THEN v \div Limb
         ELSE 0]

UintOf(k) == Uint(k, 0)

IsZero(u) == \A i \in 1..NumLimbs : u[i] = 0

(* The value of a uint as a number; used on values below 2^31 only. *)
ToNat(u) == IF u[2] = 0 THEN u[1] ELSE u[1] + Limb * u[2]

RECURSIVE UintModFrom(_, _, _, _)
UintModFrom(u, d, i, acc) ==
  IF i = 0 THEN acc ELSE UintModFrom(u, d, i - 1, (acc * Limb + u[i]) % d)

(* u % d for a uint u and a divisor 0 < d < 2^15. *)
UintMod(u, d) == UintModFrom(u, d, NumLimbs, 0)

RECURSIVE MulCarry(_, _, _)
MulCarry(u, c, i) ==
  IF i = 1 THEN 0 ELSE (u[i - 1] * c + MulCarry(u, c, i - 1)) \div Limb

(* u * c on uint, for 0 <= c < 2^14: the product modulo 2^UintBits. *)
UintMul(u, c) ==
  [i \in 1..NumLimbs |-> (u[i] * c + MulCarry(u, c, i)) % Limb]

(* u + 1 on uint: wraps to 0 after 2^UintBits - 1. *)
UintInc(u) ==
  [i \in 1..NumLimbs |->
     IF \A h \in 1..(i - 1) : u[h] = Limb - 1 THEN (u[i] + 1) % Limb ELSE u[i]]

(* The number of bits of x < Limb that follow its leftmost 1-bit, plus 1. *)
BitLen(x) == CHOOSE b \in 0..LimbBits : x < 2 ^ b /\ (b > 0 => x >= 2 ^ (b - 1))

(* bits.Clz: the number of leading zero bits of a 64-bit value. *)
Clz(u) ==
  IF IsZero(u) THEN UintBits
  ELSE LET top == CHOOSE i \in 1..NumLimbs :
                    u[i] # 0 /\ \A h \in (i + 1)..NumLimbs : u[h] = 0
       IN  UintBits - ((top - 1) * LimbBits + BitLen(u[top]))

(***************************************************************************)
(* Fractions standing for float64 ratios.                                  *)
(***************************************************************************)
Frac(n, d) == IF n = 0 THEN [num |-> 0, den |-> 1] ELSE [num |-> n, den |-> d]

FracZero == Frac(0, 1)

FracEq(a, b) == a.num * b.den = b.num * a.den

(***************************************************************************)
(* Inputs.                                                                 *)
(***************************************************************************)
Flows == 1..NumFlows

(* Values the shared xorshift64* generator returns (never 0): small ones,  *)
(* which have many leading zero bits, and ones with 0 and 1 of them.       *)
RndVals ==
  {UintOf(k) : k \in 1..MaxRnd}
    \cup {Uint(1, UintBits - 1), Uint(1, UintBits - 2)}

(* Values random.Float64() returns, as numerators over FloatDen: the least *)
(* and the greatest of the multiples of 1 / FloatDen in [0, 1).            *)
FloatDen == MaxL + 2

FloatVals == {0, FloatDen - 1}

(* The numbers of rows a sketch is constructed with. *)
RowCounts == {0, 1, BigM}

(* farm.Hash64WithSeeds is one fixed function of (flow, seed0, seed1); it *)
(* is drawn from the family of the functions Hash64WithSeeds below, one    *)
(* for each value of the variable farm.                                    *)
FarmFamily == 0..MaxSeed

Hash64WithSeeds(f, seed0, seed1) ==
  ((farm % 2) * f) + (IF seed0 = 0 THEN (farm \div 2) % 2 ELSE 0)
    + (((farm \div 4) % 2) * seed1) + ((farm \div 8) * seed0)

Nil == [nil |-> TRUE]

(***************************************************************************)
(* bitset.BitSet                                                           *)
(***************************************************************************)
BitSetNew(length) == [length |-> length, set |-> {}]

BitSetTest(b, i) == i \in b.set

(* BitSetSet storing bit i in place of the bits instead of adding it. *)
BitSetSet_Overwrites(b, i) == [b EXCEPT !.set = {i}]

BitSetSet(b, i) == [b EXCEPT !.set = @ \cup {i}]

(***************************************************************************)
(* Non-receiver functions.                                                 *)
(***************************************************************************)
(* georand capping the column at w instead of w - 1. *)
georand_CapsAtW(w, val) ==
  LET res == Clz(val) IN IF res >= w THEN w ELSE res

georand(w, val) ==
  LET res == Clz(val) IN IF res >= w THEN w - 1 ELSE res

rand(m, val) == UintMod(val, m)

(***************************************************************************)
(* Constructors.                                                           *)
(***************************************************************************)
(* New without the check of w. *)
New_SkipsWCheck(l, m, w) ==
  IF IsZero(l) THEN [sketch |-> Nil, err |-> TRUE]
  ELSE IF IsZero(m) THEN [sketch |-> Nil, err |-> TRUE]
  ELSE [sketch |-> [l |-> l, m |-> m, w |-> w, bitmap |-> BitSetNew(l),
                    p |-> FracZero, n |-> UintOf(0)],
        err |-> FALSE]

New(l, m, w) ==
  IF IsZero(l) THEN [sketch |-> Nil, err |-> TRUE]
  ELSE IF IsZero(m) THEN [sketch |-> Nil, err |-> TRUE]
  ELSE IF IsZero(w) THEN [sketch |-> Nil, err |-> TRUE]
  ELSE [sketch |-> [l |-> l, m |-> m, w |-> w, bitmap |-> BitSetNew(l),
                    p |-> FracZero, n |-> UintOf(0)],
        err |-> FALSE]

NewForMaxFlows(maxFlows) ==
  LET l == UintMul(maxFlows, 32) IN New(l, UintOf(256), UintOf(32))

(***************************************************************************)
(* Methods of Sketch.                                                      *)
(***************************************************************************)
getPos(s, f, i, j) == Hash64WithSeeds(f, i, j) % ToNat(s.l)

(* getP counting the bits that are 0. *)
getP_CountsZeros(s) ==
  LET ones == Cardinality({i \in 0..(ToNat(s.l) - 1) : ~BitSetTest(s.bitmap, i)})
  IN  Frac(ones, ToNat(s.l))

getP(s) ==
  LET ones == Cardinality({i \in 0..(ToNat(s.l) - 1) : BitSetTest(s.bitmap, i)})
  IN  Frac(ones, ToNat(s.l))

GetFillRate(s) == LET p == getP(s) IN Frac(p.num * 100, p.den)

(* Increment counting the observation only after the skip test. *)
Increment_CountsAfterSkip(s, flow, v1, v2, r) ==
  LET s1  == [s EXCEPT !.p = FracZero]
      i   == rand(ToNat(s.m), v1)
      j   == georand(ToNat(s.w), v2)
      pos == getPos(s, flow, i, j)
  IN  IF r * ToNat(s.l) < j * FloatDen
      THEN [sketch |-> s1, row |-> i, col |-> j, pos |-> pos, skipped |-> TRUE]
      ELSE [sketch |-> [s1 EXCEPT !.n = UintInc(@),
                                  !.bitmap = BitSetSet(@, pos)],
            row |-> i, col |-> j, pos |-> pos, skipped |-> FALSE]

(* Increment without the invalidation of the cached fill ratio. *)
Increment_KeepsCache(s, flow, v1, v2, r) ==
  LET i   == rand(ToNat(s.m), v1)
      j   == georand(ToNat(s.w), v2)
      pos == getPos(s, flow, i, j)
      s2  == [s EXCEPT !.n = UintInc(@)]
  IN  IF r * ToNat(s.l) < j * FloatDen
      THEN [sketch |-> s2, row |-> i, col |-> j, pos |-> pos, skipped |-> TRUE]
      ELSE [sketch |-> [s2 EXCEPT !.bitmap = BitSetSet(@, pos)],
            row |-> i, col |-> j, pos |-> pos, skipped |-> FALSE]

(* The sketch after Increment(flow), for the two values v1, v2 drawn from  *)
(* rnd and the value r / FloatDen drawn from random.Float64().             *)
Increment(s, flow, v1, v2, r) ==
  LET s1  == [s EXCEPT !.p = FracZero]
      i   == rand(ToNat(s.m), v1)
      j   == georand(ToNat(s.w), v2)
      pos == getPos(s, flow, i, j)
      s2  == [s1 EXCEPT !.n = UintInc(@)]
  IN  IF r * ToNat(s.l) < j * FloatDen
      THEN [sketch |-> s2, row |-> i, col |-> j, pos |-> pos, skipped |-> TRUE]
      ELSE [sketch |-> [s2 EXCEPT !.bitmap = BitSetSet(@, pos)],
            row |-> i, col |-> j, pos |-> pos, skipped |-> FALSE]

RECURSIVE getZSumFrom(_, _, _)
getZSumFrom(s, flow, i) ==
  IF i >= ToNat(s.m) THEN 0
  ELSE LET unset == {j \in 0..(ToNat(s.w) - 1) :
                       ~BitSetTest(s.bitmap, getPos(s, flow, i, j))}
           first == CHOOSE j \in unset : \A h \in unset : j <= h
       IN  (IF unset = {} THEN 0 ELSE first) + getZSumFrom(s, flow, i + 1)

getZSum(s, flow) == getZSumFrom(s, flow, 0)

getEmptyRows(s, flow) ==
  Cardinality({i \in 0..(ToNat(s.m) - 1) :
                 ~BitSetTest(s.bitmap, getPos(s, flow, i, 0))})

(* The branch condition with the threshold 0.25 * m. *)
SmallMultiplicity_QuarterM(k, p, m) ==
  IF p.num = p.den THEN {k > 0}
  ELSE {4 * k * p.den > m * (p.den - p.num)}

(* The outcomes of kp > 0.3 * m for kp = k / (1 - p).  With p = 1 the     *)
(* quotient is NaN for k = 0 (the comparison is false) and +Inf for k > 0  *)
(* (it is true).  When p > 0 and k / (1 - p) = 0.3 m as real numbers the   *)
(* comparison is decided by the float64 rounding of both sides; with p = 0 *)
(* the product 0.3 * m rounds to the integer k, and the comparison is      *)
(* false.                                                                  *)
SmallMultiplicity(k, p, m) ==
  IF p.num = p.den THEN {k > 0}
  ELSE IF 10 * k * p.den = 3 * m * (p.den - p.num) /\ p.num # 0
  THEN {TRUE, FALSE}
  ELSE {10 * k * p.den > 3 * m * (p.den - p.num)}

(* Whether the value math.Abs(e) is zero.  In the first branch             *)
(* e = -2 m ln(kp / m) is zero when kp / m is 1.0, which is decided by     *)
(* float64 rounding when p > 0 and k / (1 - p) = m; in the second branch   *)
(* e = m 2^(z/m) / phi(n, p) with phi = 2^E / n is zero only for n = 0.    *)
EstimateZero(small, k, p, m, n) ==
  IF small
  THEN IF p.num = p.den THEN {FALSE}
       ELSE IF k * p.den # m * (p.den - p.num) THEN {FALSE}
       ELSE IF p.num = 0 THEN {TRUE}
       ELSE {TRUE, FALSE}
  ELSE {IsZero(n)}

(* GetEstimate(flow): the outcomes of the call, each with the sketch      *)
(* afterwards (the cache may be refreshed), whether getP scanned the       *)
(* bitmap, and the quantities of the estimate.                             *)
GetEstimate(s, flow) ==
  LET scan == FracEq(s.p, FracZero)
      s1   == IF scan THEN [s EXCEPT !.p = getP(s)] ELSE s
      k    == getEmptyRows(s1, flow)
      m    == ToNat(s1.m)
  IN  UNION {{[sketch |-> s1, scanned |-> scan, k |-> k, n |-> s1.n,
               p |-> s1.p, branch |-> IF small THEN "small" ELSE "general",
               z |-> IF small THEN 0 ELSE getZSum(s1, flow), zero |-> zero] :
                zero \in EstimateZero(small, k, s1.p, m, s1.n)} :
               small \in SmallMultiplicity(k, s1.p, m)}

(***************************************************************************)
(* The program: one sketch is constructed and then updated and queried.    *)
(***************************************************************************)
Init ==
  /\ sketch = Nil
  /\ err = FALSE
  /\ farm \in FarmFamily
  /\ call = [op |-> "none"]
  /\ ret = [kind |-> "none"]
  /\ stale = TRUE
  /\ calls = 0

CallNew(l, m, w) ==
  /\ call.op = "none"
  /\ sketch' = New(l, m, w).sketch
  /\ err' = New(l, m, w).err
  /\ call' = [op |-> "New", l |-> l, m |-> m, w |-> w]
  /\ ret' = [kind |-> "none"]
  /\ UNCHANGED <<farm, stale, calls>>

CallNewForMaxFlows(maxFlows) ==
  /\ call.op = "none"
  /\ sketch' = NewForMaxFlows(maxFlows).sketch
  /\ err' = NewForMaxFlows(maxFlows).err
  /\ call' = [op |-> "NewForMaxFlows", maxFlows |-> maxFlows]
  /\ ret' = [kind |-> "none"]
  /\ UNCHANGED <<farm, stale, calls>>

(* One value of S for each result F has on S. *)
OnePerResult(S, F(_)) == {CHOOSE v \in S : F(v) = y : y \in {F(v) : v \in S}}

(* The draws of Increment: one generator value for each row, one for each  *)
(* column, and the values of random.Float64().                             *)
CallIncrement(flow) ==
  /\ sketch # Nil
  /\ calls < MaxCalls
  /\ LET row(v) == rand(ToNat(sketch.m), v)
         col(v) == georand(ToNat(sketch.w), v)
     IN  \E res \in {Increment(sketch, flow, v1, v2, r) :
                       v1 \in OnePerResult(RndVals, row),
                       v2 \in OnePerResult(RndVals, col), r \in FloatVals} :
           /\ sketch' = res.sketch
           /\ call' = [op |-> "Increment", flow |-> flow, row |-> res.row,
                       col |-> res.col, pos |-> res.pos,
                       skipped |-> res.skipped, scanned |-> FALSE,
                       fresh |-> ~stale]
  /\ ret' = [kind |-> "none"]
  /\ stale' = TRUE
  /\ calls' = calls + 1
  /\ UNCHANGED <<err, farm>>

CallGetEstimate(flow) ==
  /\ sketch # Nil
  /\ \E res \in GetEstimate(sketch, flow) :
       /\ sketch' = res.sketch
       /\ call' = [op |-> "GetEstimate", flow |-> flow,
                   scanned |-> res.scanned, fresh |-> ~stale]
       /\ ret' = [kind |-> "estimate", branch |-> res.branch, k |-> res.k,
                  z |-> res.z, n |-> res.n, p |-> res.p, zero |-> res.zero]
       /\ stale' = IF res.scanned THEN FALSE ELSE stale
  /\ UNCHANGED <<err, farm, calls>>

(* GetFillRate calls getP, which scans the bitmap, and leaves the sketch.  *)
CallGetFillRate ==
  /\ sketch # Nil
  /\ ret' = [kind |-> "fill", rate |-> GetFillRate(sketch)]
  /\ call' = [op |-> "GetFillRate", scanned |-> TRUE, fresh |-> ~stale]
  /\ stale' = FALSE
  /\ UNCHANGED <<sketch, err, farm, calls>>

Dims(max) == {UintOf(k) : k \in 0..max}

Next ==
  \/ \E l \in Dims(MaxL), m \in {UintOf(k) : k \in RowCounts}, w \in Dims(MaxW) :
       CallNew(l, m, w)
  \/ \E flow \in Flows : CallIncrement(flow)
  \/ \E flow \in Flows : CallGetEstimate(flow)
  \/ CallGetFillRate

Spec == Init /\ [][Next]_vars

(* The program that constructs a sketch with NewForMaxFlows. *)
MaxFlowsArgs == {Uint(k, s) : k \in 0..MaxArgK, s \in 0..(UintBits - 1)}

NextMaxFlows == \E maxFlows \in MaxFlowsArgs : CallNewForMaxFlows(maxFlows)

SpecMaxFlows == Init /\ [][NextMaxFlows]_vars

(***************************************************************************)
(* Properties.                                                             *)
(***************************************************************************)
(* The number of 1-bits among the l bits of the bitmap of sketch s. *)
Ones(s) == Cardinality({i \in 0..(ToNat(s.l) - 1) : i \in s.bitmap.set})

(* The run length of row i of flow: the first unset column, or w. *)
RunLength(s, flow, i) ==
  LET w == ToNat(s.w)
  IN  IF \A j \in 0..(w - 1) : (Hash64WithSeeds(flow, i, j) % ToNat(s.l)) \in s.bitmap.set
      THEN w
      ELSE CHOOSE j \in 0..(w - 1) :
             /\ (Hash64WithSeeds(flow, i, j) % ToNat(s.l)) \notin s.bitmap.set
             /\ \A h \in 0..(j - 1) :
                  (Hash64WithSeeds(flow, i, h) % ToNat(s.l)) \in s.bitmap.set

RECURSIVE RunLengthSum(_, _, _)
RunLengthSum(s, flow, i) ==
  IF i >= ToNat(s.m) THEN 0
  ELSE RunLength(s, flow, i) + RunLengthSum(s, flow, i + 1)

(* The rows of flow whose column-0 bit is unset. *)
EmptyRows(s, flow) ==
  {i \in 0..(ToNat(s.m) - 1) :
     (Hash64WithSeeds(flow, i, 0) % ToNat(s.l)) \notin s.bitmap.set}

(* C1: New(l, m, w) returns an error and no Sketch exactly when l, m or w  *)
(* is zero; otherwise it returns a Sketch with those dimensions, a bitmap  *)
(* of l bits that are all 0, and n = 0.                                    *)
C1_NewValidatesDimensions ==
  call.op = "New" =>
    /\ err <=> (IsZero(call.l) \/ IsZero(call.m) \/ IsZero(call.w))
    /\ err <=> (sketch = Nil)
    /\ ~err =>
         /\ sketch.l = call.l /\ sketch.m = call.m /\ sketch.w = call.w
         /\ sketch.bitmap.length = call.l
         /\ \A i \in 0..(ToNat(call.l) - 1) : ~BitSetTest(sketch.bitmap, i)
         /\ sketch.n = UintOf(0)

(* New with only w equal to zero has returned the error. *)
C1_Witness ==
  /\ call.op = "New" /\ err /\ sketch = Nil
  /\ ~IsZero(call.l) /\ ~IsZero(call.m) /\ IsZero(call.w)

(* C2: a bit that is 1 never becomes 0 again, and the fill ratio after     *)
(* each operation is at least the fill ratio before it.                    *)
C2_BitsNeverReset ==
  [][(sketch # Nil /\ sketch' # Nil) =>
       /\ sketch.bitmap.set \subseteq sketch'.bitmap.set
       /\ Ones(sketch) * ToNat(sketch'.l) <= Ones(sketch') * ToNat(sketch.l)]_vars

(* Two Increments have run, the last one wrote its bit, and one bit of a   *)
(* bitmap of at least two bits is set.                                     *)
C2_Witness ==
  /\ sketch # Nil /\ calls >= 2
  /\ call.op = "Increment" /\ ~call.skipped
  /\ Ones(sketch) = 1 /\ ToNat(sketch.l) >= 2

(* C3: GetFillRate returns (set bits / l) * 100, which is in [0, 100]. *)
C3_FillRateRange ==
  call.op = "GetFillRate" =>
    /\ ret.rate.num * ToNat(sketch.l) = 100 * Ones(sketch) * ret.rate.den
    /\ 0 <= ret.rate.num
    /\ ret.rate.num <= 100 * ret.rate.den

(* GetFillRate has returned 50 on a half-filled bitmap. *)
C3_Witness ==
  /\ call.op = "GetFillRate"
  /\ Ones(sketch) = 1 /\ ToNat(sketch.l) = 2
  /\ ret.rate.num = 50 * ret.rate.den

(* C4: n equals the number of Increment calls made since construction,     *)
(* whether or not the bit write was skipped, and queries leave n alone.    *)
C4_CountsIncrements == sketch # Nil => sketch.n = UintOf(calls)

(* Two Increments have been counted and the last one skipped its write. *)
C4_Witness ==
  /\ sketch # Nil /\ calls >= 2
  /\ call.op = "Increment" /\ call.skipped
  /\ sketch.n = UintOf(calls)

(* C5: the sum z used by GetEstimate is the sum over the rows of the run   *)
(* length: the first unset column, and w when all w columns are set.       *)
C5_ZSumIsRunLengthSum ==
  (call.op = "GetEstimate" /\ ret.branch = "general") =>
    ret.z = RunLengthSum(sketch, call.flow, 0)

(* C6: whenever the cached fill ratio is valid (non-zero) it equals the    *)
(* current number of set bits divided by l, and so does the p used by      *)
(* GetEstimate.                                                            *)
C6_CacheValid ==
  sketch # Nil =>
    /\ sketch.p.num # 0 =>
         sketch.p.num * ToNat(sketch.l) = Ones(sketch) * sketch.p.den
    /\ call.op = "GetEstimate" =>
         ret.p.num * ToNat(sketch.l) = Ones(sketch) * ret.p.den

(* GetEstimate has refreshed the cache after an Increment that set a bit   *)
(* while an older cached value was in place.                               *)
C6_Witness ==
  /\ sketch # Nil /\ calls >= 2
  /\ call.op = "GetEstimate" /\ call.scanned
  /\ Ones(sketch) = 2 /\ sketch.p.num # 0

(* C7: GetFillRate and GetEstimate scan the bitmap only when the cached    *)
(* fill ratio is stale: a query issued when no Increment has happened      *)
(* since the last scan does not scan again.                                *)
C7_ScanOnlyWhenStale ==
  (call.op \in {"GetEstimate", "GetFillRate"} /\ call.fresh) => ~call.scanned

(* C8: NewForMaxFlows(maxFlows) returns the error only when maxFlows = 0,  *)
(* and otherwise a Sketch with l = maxFlows * 32, m = 256, w = 32.         *)
C8_MaxFlowsDimensions ==
  call.op = "NewForMaxFlows" =>
    /\ err <=> IsZero(call.maxFlows)
    /\ ~err =>
         /\ call.maxFlows[NumLimbs] < Limb \div 32
         /\ sketch.l = UintMul(call.maxFlows, 32)
         /\ sketch.m = UintOf(256)
         /\ sketch.w = UintOf(32)

(* C9: an Increment draws a row in [0, m) and a column in [0, w), may      *)
(* write only the bit at position(flowKey, row, column), which is in       *)
(* [0, l), leaves every other bit unchanged, and changes no bit when the   *)
(* write is skipped.                                                       *)
C9_IncrementFrame ==
  [][calls' # calls =>
       LET l == ToNat(sketch.l)
           pos == Hash64WithSeeds(call'.flow, call'.row, call'.col) % l
       IN  /\ call'.row \in 0..(ToNat(sketch.m) - 1)
           /\ call'.col \in 0..(ToNat(sketch.w) - 1)
           /\ call'.pos = pos
           /\ pos \in 0..(l - 1)
           /\ sketch.bitmap.set \subseteq sketch'.bitmap.set
           /\ sketch'.bitmap.set \subseteq sketch.bitmap.set \cup {pos}
           /\ call'.skipped => sketch'.bitmap.set = sketch.bitmap.set
           /\ sketch'.bitmap.length = sketch.bitmap.length]_vars

(* An Increment has written the bit of the last column, w - 1 >= 1. *)
C9_Witness ==
  /\ sketch # Nil /\ call.op = "Increment" /\ ~call.skipped
  /\ call.col = ToNat(sketch.w) - 1 /\ call.col >= 1
  /\ call.pos \in sketch.bitmap.set

(* C10: GetEstimate takes the small-multiplicity branch exactly when       *)
(* k / (1 - p) > 0.3 * m for k the number of rows whose column-0 bit is    *)
(* unset and p the current fill ratio (the comparison is false when p = 1, *)
(* where the quotient is not a number); on a sketch with no bits set it    *)
(* takes that branch and the estimate is 0.                                *)
C10_BranchRule ==
  call.op = "GetEstimate" =>
    LET k == Cardinality(EmptyRows(sketch, call.flow))
        m == ToNat(sketch.m)
        l == ToNat(sketch.l)
        ones == Ones(sketch)
    IN  /\ ret.k = k
        /\ (ones = 0 \/ 10 * k * l # 3 * m * (l - ones)) =>
             (ret.branch = "small" <=>
                (ones < l /\ 10 * k * l > 3 * m * (l - ones)))
        /\ ones = 0 => (k = m /\ ret.branch = "small" /\ ret.zero)

(* GetEstimate has taken the general branch for a flow with an empty row   *)
(* on a bitmap that is not full.                                           *)
C10_Witness ==
  /\ call.op = "GetEstimate" /\ ret.branch = "general"
  /\ ret.k >= 1 /\ Ones(sketch) < ToNat(sketch.l)

====
